---- MODULE Spec2Model ----
(***************************************************************************)
(* Model of $try (src/src/try.ts) and of the ResultOrError shape           *)
(* (src/unnamed/part_000).                                                 *)
(*                                                                         *)
(* A bounded number of calls of $try is tracked.  Call i is made with the  *)
(* argument arg[i]; the argument may be, or return, the awaitable u[i].    *)
(* Native promises follow the ECMAScript job model: a reaction runs as a   *)
(* job of one FIFO microtask queue (mq), and every .then/.catch of the     *)
(* source creates one derived promise (d[i][k]).                           *)
(*                                                                         *)
(* JavaScript values are named by strings:                                 *)
(*   "undefined" "null" "zero" "empty" "false"   the falsy values          *)
(*   "n42" "str"                                 truthy primitives         *)
(*   "obj"         an object without a then member (it has a field a)      *)
(*   "objThenNum"  an object whose then member is not callable             *)
(*   "err"         an Error instance                                       *)
(*   "promise"     the native promise u[i] of the call                     *)
(*   "thenable"    u[i] as a minimal thenable: its then registers the      *)
(*                 callbacks and returns a value without a catch member    *)
(*   "TypeErrorExpects"  the TypeError of try.ts line 34                   *)
(*   "TypeErrorCatch"    the TypeError the engine raises for x.catch(...)  *)
(*                       when x has no callable catch                      *)
(***************************************************************************)
EXTENDS Integers, Sequences, FiniteSets, TLC

VARIABLES
    arg,            \* arg[i]: the argument of call i
    ret,            \* ret[i]: how call i of $try ended
    invoked,        \* invoked[i]: how often the callable arg[i] was invoked
    u,              \* u[i]: the underlying awaitable of call i
    d,              \* d[i]: the promises derived by the .then/.catch chain
    mq,             \* the microtask queue: jobs <<i, k>>
    resultObj,      \* resultObj[i]: the Result object built for call i
    objA,           \* field a of the object "obj"
    awaited,        \* awaited[i]: a continuation awaits the returned awaitable
    obs,            \* the calls in the order their continuations observed
    seen,           \* seen[i]: what the continuation of call i observed
    settleOrder,    \* the calls in the order their awaitables settled
    wrappedPending, \* u[i] was pending when $try was called
    awaitedPending, \* the returned awaitable was pending when first awaited
    writes          \* caller writes made so far (SpecMut only)

vars == <<arg, ret, invoked, u, d, mq, resultObj, objA, awaited, obs, seen,
          settleOrder, wrappedPending, awaitedPending, writes>>

\* Number of calls of $try that are tracked.
NCalls == 2

\* Number of writes a caller attempts on produced Results (SpecMut).
MaxWrites == 1

Calls == 1..NCalls

Falsy == {"undefined", "null", "zero", "empty", "false"}

PlainVals == Falsy \cup {"n42", "str", "obj", "objThenNum", "err"}

Awaitables == {"promise", "thenable"}

\* Values an awaitable of the model fulfils or rejects with.
SettleVals == {"undefined", "n42", "err"}

\* Values a caller writes into a slot.
WriteVals == {"undefined", "n42"}

Truthy(x) == x \notin Falsy

\* typeof x.then === 'function'
HasCallableThen(x) == x \in Awaitables

\* x.then(cb) returns a value with a callable catch member
ThenReturnsCatchable(x) == x = "promise"

\* The arguments: $try(x) for a value x that is not a function, and $try(fn)
\* for a function fn that returns or throws v; then = TRUE is a function
\* that carries a callable then member (bound to the native promise u[i]).
\* Where the wrapped computation is the awaitable u[i], ok and out say how
\* u[i] will settle: it fulfils (ok) or rejects (~ok) with out.
SyncInputs ==
    [shape : {"direct"}, body : {"na"}, v : PlainVals, then : {FALSE},
     ok : {TRUE}, out : {"undefined"}]
    \cup [shape : {"thunk"}, body : {"return"}, v : PlainVals, then : {FALSE},
          ok : {TRUE}, out : {"undefined"}]
    \cup [shape : {"thunk"}, body : {"throw"}, v : PlainVals \cup Awaitables,
          then : {FALSE}, ok : {TRUE}, out : {"undefined"}]

AsyncInputs ==
    [shape : {"direct"}, body : {"na"}, v : Awaitables, then : {FALSE},
     ok : BOOLEAN, out : SettleVals]
    \cup [shape : {"thunk"}, body : {"return"}, v : Awaitables, then : {FALSE},
          ok : BOOLEAN, out : SettleVals]
    \cup [shape : {"thunk"}, body : {"return"}, v : {"n42"}, then : {TRUE},
          ok : BOOLEAN, out : SettleVals]

Inputs == SyncInputs \cup AsyncInputs

IsFunction(a) == a.shape = "thunk"

ArgTruthy(a) == IF IsFunction(a) THEN TRUE ELSE Truthy(a.v)

ArgHasCallableThen(a) == IF IsFunction(a) THEN a.then ELSE HasCallableThen(a.v)

ArgThenReturnsCatchable(a) ==
    IF IsFunction(a) THEN a.then ELSE ThenReturnsCatchable(a.v)

\* The computation wrapped by call i is the awaitable u[i].
UsesAwaitable(a) == a \in AsyncInputs

\* The arguments of the calls whose relative order is followed: a native
\* promise passed directly, and a callable returning a native promise.
OrderInputs ==
    {a \in AsyncInputs : ~a.then /\ a.v = "promise" /\ a.out = "err"}

\* A slot in which no call is made.
NoCall ==
    [shape |-> "none", body |-> "na", v |-> "undefined", then |-> FALSE,
     ok |-> TRUE, out |-> "undefined"]

NoObj == [none |-> "none"]

Pending == [st |-> "pending", val |-> "none"]

NotCalled == [kind |-> "none", exc |-> "none"]

\* The method chain attached to an awaitable argument:
\* arg.then((value) => ({ result: value })).catch((error) => ({ error }))
DirectChain == <<"then", "catch">>

\* Mutant of ThunkChain: both handlers passed to one then,
\* value.then((result) => ({ result }), (error) => ({ error })).
ThunkChainBoth == <<"thenBoth">>

\* The method chain attached to an awaitable returned by the callable:
\* value.then((result) => ({ result })).catch((error) => ({ error }))
ThunkChain == <<"then", "catch">>

\* arg && typeof arg.then === 'function'
IsAwaitableArg(a) == ArgTruthy(a) /\ ArgHasCallableThen(a)

\* Mutant of IsAwaitableVal: the then member is tested for presence only,
\* value && 'then' in value.
IsAwaitableValPresence(v) ==
    Truthy(v) /\ (HasCallableThen(v) \/ v = "objThenNum")

\* value && typeof value.then === 'function'
IsAwaitableVal(v) == Truthy(v) /\ HasCallableThen(v)

\* (value) => ({ result: value })
OnFulfilled(v) == [result |-> v]

\* Mutant of OnRejected: the handler fills both slots,
\* (error) => ({ result: undefined, error }).
OnRejectedBoth(e) == [result |-> "undefined", error |-> e]

\* (error) => ({ error })
OnRejected(e) == [error |-> e]

\* return { result: value }
SyncSuccess(v) == [result |-> v]

\* Mutant of SyncError: a thrown value that is no Error is replaced by one,
\* catch (error) { return { error: error instanceof Error ? error : new Error(...) } }.
SyncErrorNormalised(e) == [error |-> IF e = "err" THEN e ELSE "err"]

\* catch (error) { return { error } }
SyncError(e) == [error |-> e]

\* The chain call i attached to u[i].
ChainOf(i) == IF IsAwaitableArg(arg[i]) THEN DirectChain ELSE ThunkChain

HasOnFulfilled(h) == h \in {"then", "thenBoth"}

HasOnRejected(h) == h \in {"catch", "thenBoth"}

Last(i) == d[i][Len(d[i])]

\* What every run starts from; the arguments are chosen by Init, InitOrder.
Start ==
    /\ ret = [i \in Calls |-> NotCalled]
    /\ invoked = [i \in Calls |-> 0]
    /\ u = [i \in Calls |-> Pending]
    /\ d = [i \in Calls |-> <<>>]
    /\ mq = <<>>
    /\ resultObj = [i \in Calls |-> NoObj]
    /\ objA = "a0"
    /\ awaited = [i \in Calls |-> FALSE]
    /\ obs = <<>>
    /\ seen = [i \in Calls |-> "none"]
    /\ settleOrder = <<>>
    /\ wrappedPending = [i \in Calls |-> FALSE]
    /\ awaitedPending = [i \in Calls |-> FALSE]
    /\ writes = 0

\* One call of $try, with any argument.
Init ==
    /\ arg \in [Calls -> Inputs \cup {NoCall}]
    /\ arg[1] \in Inputs
    /\ \A i \in Calls : i > 1 => arg[i] = NoCall
    /\ Start

\* NCalls calls of $try on native promises.
InitOrder ==
    /\ arg \in [Calls -> OrderInputs]
    /\ Start

\* $try returns the last promise of the chain it attaches to u[i]; the
\* reaction of an already settled u[i] is queued at once.
StartChain(i, chain) ==
    /\ d' = [d EXCEPT ![i] = [k \in 1..Len(chain) |-> Pending]]
    /\ mq' = IF u[i].st # "pending" THEN Append(mq, <<i, 1>>) ELSE mq
    /\ ret' = [ret EXCEPT ![i] = [kind |-> "awaitable", exc |-> "none"]]
    /\ wrappedPending' = [wrappedPending EXCEPT ![i] = (u[i].st = "pending")]
    /\ UNCHANGED resultObj

\* $try returns the Result r synchronously.
ReturnResult(i, r) ==
    /\ ret' = [ret EXCEPT ![i] = [kind |-> "result", exc |-> "none"]]
    /\ resultObj' = [resultObj EXCEPT ![i] = r]
    /\ UNCHANGED <<d, mq, wrappedPending>>

\* An exception e leaves $try.
Raise(i, e) ==
    /\ ret' = [ret EXCEPT ![i] = [kind |-> "raise", exc |-> e]]
    /\ UNCHANGED <<d, mq, wrappedPending, resultObj>>

\* One call of $try(arg[i]).  Calls are numbered in the order they are made.
Call(i) ==
    /\ arg[i] # NoCall
    /\ ret[i].kind = "none"
    /\ \A j \in Calls : j < i => ret[j].kind # "none"
    /\ LET a == arg[i] IN
       IF IsAwaitableArg(a)
       THEN /\ IF ArgThenReturnsCatchable(a)
               THEN StartChain(i, DirectChain)
               ELSE Raise(i, "TypeErrorCatch")
            /\ UNCHANGED invoked
       ELSE IF ~IsFunction(a)
       THEN /\ Raise(i, "TypeErrorExpects")
            /\ UNCHANGED invoked
       ELSE /\ invoked' = [invoked EXCEPT ![i] = @ + 1]
            /\ IF a.body = "throw"
               THEN ReturnResult(i, SyncError(a.v))
               ELSE IF IsAwaitableVal(a.v)
               THEN IF ThenReturnsCatchable(a.v)
                    THEN StartChain(i, ThunkChain)
                    ELSE ReturnResult(i, SyncError("TypeErrorCatch"))
               ELSE ReturnResult(i, SyncSuccess(a.v))
    /\ UNCHANGED <<arg, u, objA, awaited, obs, seen, settleOrder,
                   awaitedPending, writes>>

\* The awaitable u[i] settles: it fulfils or rejects with arg[i].out.
Settle(i) ==
    /\ UsesAwaitable(arg[i])
    /\ u[i].st = "pending"
    /\ u' = [u EXCEPT ![i] = [st |-> IF arg[i].ok THEN "fulfilled" ELSE "rejected",
                              val |-> arg[i].out]]
    /\ settleOrder' = Append(settleOrder, i)
    /\ mq' = IF d[i] # <<>> THEN Append(mq, <<i, 1>>) ELSE mq
    /\ UNCHANGED <<arg, ret, invoked, d, resultObj, objA, awaited, obs, seen,
                   wrappedPending, awaitedPending, writes>>

\* The caller awaits the awaitable $try returned.
Await(i) ==
    /\ ret[i].kind = "awaitable"
    /\ ~awaited[i]
    /\ awaited' = [awaited EXCEPT ![i] = TRUE]
    /\ awaitedPending' = [awaitedPending EXCEPT ![i] = (Last(i).st = "pending")]
    /\ mq' = IF Last(i).st # "pending"
             THEN Append(mq, <<i, Len(d[i]) + 1>>) ELSE mq
    /\ UNCHANGED <<arg, ret, invoked, u, d, resultObj, objA, obs, seen,
                   settleOrder, wrappedPending, writes>>

\* Reaction k of call i: the handler of chain element k runs on the outcome
\* of its predecessor and settles the derived promise d[i][k].
React(i, k) ==
    LET pred == IF k = 1 THEN u[i] ELSE d[i][k - 1]
        h == ChainOf(i)[k]
        more == k < Len(d[i]) \/ awaited[i]
    IN  /\ IF pred.st = "fulfilled"
           THEN /\ d' = [d EXCEPT ![i][k] = [st |-> "fulfilled", val |-> "none"]]
                /\ resultObj' = IF HasOnFulfilled(h) /\ k = 1
                                THEN [resultObj EXCEPT ![i] = OnFulfilled(pred.val)]
                                ELSE resultObj
           ELSE IF HasOnRejected(h)
           THEN /\ d' = [d EXCEPT ![i][k] = [st |-> "fulfilled", val |-> "none"]]
                /\ resultObj' = [resultObj EXCEPT ![i] = OnRejected(pred.val)]
           ELSE /\ d' = [d EXCEPT ![i][k] = [st |-> "rejected", val |-> pred.val]]
                /\ UNCHANGED resultObj
        /\ mq' = IF more THEN Append(Tail(mq), <<i, k + 1>>) ELSE Tail(mq)
        /\ UNCHANGED <<obs, seen>>

\* The continuation awaiting the returned awaitable of call i resumes.
Observe(i) ==
    /\ obs' = Append(obs, i)
    /\ seen' = [seen EXCEPT ![i] = IF Last(i).st = "fulfilled"
                                   THEN "result" ELSE "rejection"]
    /\ mq' = Tail(mq)
    /\ UNCHANGED <<d, resultObj>>

\* The host runs the oldest job of the microtask queue.
RunJob ==
    /\ mq # <<>>
    /\ LET i == Head(mq)[1]
           k == Head(mq)[2]
       IN  IF k <= Len(d[i]) THEN React(i, k) ELSE Observe(i)
    /\ UNCHANGED <<arg, ret, invoked, u, objA, awaited, settleOrder,
                   wrappedPending, awaitedPending, writes>>

\* The caller of call i holds the Result: $try returned it, or the
\* continuation awaiting the returned awaitable received it.
HoldsResult(i) == ret[i].kind = "result" \/ seen[i] = "result"

\* A caller assigns r.result = v or r.error = v on a produced Result.  The
\* object literals of $try are ordinary objects: the assignment takes effect.
WriteSlot(i, f, v) ==
    /\ writes < MaxWrites
    /\ HoldsResult(i)
    /\ resultObj' = [resultObj EXCEPT ![i] =
                        [g \in (DOMAIN @) \cup {f} |-> IF g = f THEN v ELSE @[g]]]
    /\ writes' = writes + 1
    /\ UNCHANGED <<arg, ret, invoked, u, d, mq, objA, awaited, obs, seen,
                   settleOrder, wrappedPending, awaitedPending>>

\* A caller assigns r.result.a = ... (or r.error.a) where the slot holds the
\* object "obj": the slot holds the very object the computation produced.
WriteNested(i) ==
    /\ writes < MaxWrites
    /\ HoldsResult(i)
    /\ \E f \in DOMAIN resultObj[i] : resultObj[i][f] = "obj"
    /\ objA' = "a1"
    /\ writes' = writes + 1
    /\ UNCHANGED <<arg, ret, invoked, u, d, mq, resultObj, awaited, obs, seen,
                   settleOrder, wrappedPending, awaitedPending>>

Next ==
    \/ \E i \in Calls : Call(i)
    \/ \E i \in Calls : Settle(i)
    \/ \E i \in Calls : Await(i)
    \/ RunJob

Spec == Init /\ [][Next]_vars

SpecOrder == InitOrder /\ [][Next]_vars

NextMut ==
    \/ Next
    \/ \E i \in Calls, f \in {"result", "error"}, v \in WriteVals :
          WriteSlot(i, f, v)
    \/ \E i \in Calls : WriteNested(i)

SpecMut == Init /\ [][NextMut]_vars


(***************************************************************************)
(* The claims.                                                             *)
(***************************************************************************)

Called(i) == ret[i].kind # "none"

Produced(i) == resultObj[i] # NoObj

Slots(i) == DOMAIN resultObj[i]

\* x exposes a callable then member.
AwaitableShaped(x) == x \in Awaitables

\* arg[i] is a plain callable () => v or () => { throw v }.
PlainThunk(i) == arg[i].shape = "thunk" /\ ~arg[i].then

\* Nothing asynchronous was set up for call i.
NothingScheduled(i) ==
    /\ d[i] = <<>>
    /\ \A n \in 1..Len(mq) : mq[n][1] # i

\* The wrapped computation of call i failed: the callable threw, or the
\* awaitable rejects.
Failed(i) ==
    \/ PlainThunk(i) /\ arg[i].body = "throw"
    \/ UsesAwaitable(arg[i]) /\ ~arg[i].ok

\* The value the wrapped computation of call i yields, if it succeeds.
ValueOf(i) == IF UsesAwaitable(arg[i]) THEN arg[i].out ELSE arg[i].v

InSeq(q, i) == \E n \in 1..Len(q) : q[n] = i

Pos(q, i) == CHOOSE n \in 1..Len(q) : q[n] = i

Before(q, i, j) == InSeq(q, i) /\ InSeq(q, j) /\ Pos(q, i) < Pos(q, j)

\* C1: $try(() => v), for v not awaitable-shaped (falsy values included),
\* has returned synchronously the Result { result: v }: no awaitable, no
\* error slot, nothing scheduled.
C1_SyncSuccess ==
    \A i \in Calls :
        (Called(i) /\ PlainThunk(i) /\ arg[i].body = "return"
            /\ ~AwaitableShaped(arg[i].v))
        => /\ ret[i].kind = "result"
           /\ resultObj[i] = [result |-> arg[i].v]
           /\ NothingScheduled(i)

C1_Witness ==
    \E i \in Calls :
        /\ PlainThunk(i) /\ arg[i].body = "return" /\ arg[i].v = "objThenNum"
        /\ ret[i].kind = "result"
        /\ resultObj[i] = [result |-> "objThenNum"]

\* C2: $try of a callable that throws e (any value: falsy, a string, an
\* awaitable) has not raised: it has returned synchronously the Result
\* { error: e } with e verbatim and no result slot.
C2_SyncFailure ==
    \A i \in Calls :
        (Called(i) /\ PlainThunk(i) /\ arg[i].body = "throw")
        => /\ ret[i].kind = "result"
           /\ resultObj[i] = [error |-> arg[i].v]
           /\ NothingScheduled(i)

C2_Witness ==
    \E i \in Calls :
        /\ PlainThunk(i) /\ arg[i].body = "throw" /\ arg[i].v = "null"
        /\ ret[i].kind = "result"
        /\ resultObj[i] = [error |-> "null"]

\* C3: for every awaitable that rejects with e, passed directly or returned
\* by the callable, $try has returned an awaitable that is never rejected
\* and that, once resolved, holds the Result { error: e }.
C3_RejectionCaptured ==
    \A i \in Calls :
        (Called(i) /\ UsesAwaitable(arg[i]) /\ ~arg[i].ok)
        => /\ ret[i].kind = "awaitable"
           /\ Last(i).st # "rejected"
           /\ Last(i).st = "fulfilled" => resultObj[i] = [error |-> arg[i].out]
           /\ seen[i] # "rejection"

\* C4: for every awaitable that fulfils with v, detected by its callable
\* then member alone, passed directly or returned by the callable, $try has
\* returned an awaitable (never a synchronous Result) that, once resolved,
\* holds the Result { result: v }.
C4_FulfilmentWrapped ==
    \A i \in Calls :
        (Called(i) /\ UsesAwaitable(arg[i]) /\ arg[i].ok)
        => /\ ret[i].kind = "awaitable"
           /\ Last(i).st # "rejected"
           /\ Last(i).st = "fulfilled" => resultObj[i] = [result |-> arg[i].out]

\* C5: $try raises exactly when its argument is neither callable nor
\* awaitable-shaped; it then raises the TypeError of the source, returns
\* nothing and enters no computation.
C5_RaisesOnlyOnBadInput ==
    \A i \in Calls :
        Called(i)
        => /\ ret[i].kind = "raise"
              <=> (arg[i].shape = "direct" /\ ~AwaitableShaped(arg[i].v))
           /\ ret[i].kind = "raise"
              => /\ ret[i].exc = "TypeErrorExpects"
                 /\ invoked[i] = 0
                 /\ ~Produced(i)
                 /\ NothingScheduled(i)

\* C6: in every Result $try produced, the error slot is truthy exactly when
\* the wrapped computation failed; a falsy error slot comes with the result
\* slot holding the computation's value, a truthy one with no result slot.
C6_TruthinessNarrows ==
    \A i \in Calls :
        Produced(i)
        => LET r == resultObj[i]
               errTruthy == "error" \in DOMAIN r /\ Truthy(r.error)
           IN  /\ errTruthy <=> Failed(i)
               /\ ~errTruthy => ("result" \in DOMAIN r /\ r.result = ValueOf(i))
               /\ errTruthy => "result" \notin DOMAIN r

\* C7: every Result $try produced, returned synchronously or delivered on
\* the returned awaitable, has exactly one of the fields result and error;
\* and every synchronous return and every delivery carries such a Result.
C7_ExactlyOne ==
    \A i \in Calls :
        /\ Produced(i)
           => (Slots(i) = {"result"} \/ Slots(i) = {"error"})
        /\ (ret[i].kind = "result" \/ seen[i] = "result") => Produced(i)

C7_Witness ==
    \E i \in Calls :
        /\ seen[i] = "result"
        /\ ~arg[i].ok
        /\ Slots(i) = {"error"}

\* C8: once a Result is produced, no step changes it: neither one of its
\* slots nor a field of the object a slot holds.
C8_ResultNeverChanges ==
    [][\A i \in Calls :
          Produced(i)
          => /\ resultObj'[i] = resultObj[i]
             /\ (\E f \in Slots(i) : resultObj[i][f] = "obj") => objA' = objA
      ]_vars

\* C9: every call of $try whose argument is a callable has invoked it
\* exactly once by the time the call returns, and no later step invokes it.
C9_InvokedOnce ==
    \A i \in Calls :
        (Called(i) /\ IsFunction(arg[i])) => invoked[i] = 1

\* C10 as stated: a Result is observed only after its underlying awaitable
\* settled, and of any two awaited calls the one whose awaitable settled
\* first is observed first.
C10_OrderAsStated ==
    /\ \A i \in Calls : InSeq(obs, i) => u[i].st # "pending"
    /\ \A i, j \in Calls :
          (Before(settleOrder, i, j) /\ awaited[i] /\ awaited[j]
              /\ InSeq(obs, j))
          => Before(obs, i, j)

\* C10 amended: a Result is observed only after its underlying awaitable
\* settled; and of any two awaited calls, if the awaitable that settled
\* first was still pending when it was wrapped and its returned awaitable
\* was still pending when it was awaited, that call is observed first.
C10_OrderKept ==
    /\ \A i \in Calls : InSeq(obs, i) => u[i].st # "pending"
    /\ \A i \in Calls :
          (ret[i].kind = "awaitable" /\ Last(i).st # "pending")
          => u[i].st # "pending"
    /\ \A i, j \in Calls :
          (Before(settleOrder, i, j) /\ awaited[i] /\ awaited[j]
              /\ wrappedPending[i] /\ awaitedPending[i] /\ InSeq(obs, j))
          => Before(obs, i, j)

C10_Witness ==
    \E i, j \in Calls :
        /\ arg[i].shape # arg[j].shape
        /\ arg[i].ok /\ ~arg[j].ok
        /\ settleOrder = <<i, j>>
        /\ wrappedPending[i] /\ awaitedPending[i]
        /\ Before(obs, i, j)

====
